---- MODULE Spec2Model ----
(***************************************************************************)
(* A model of the input layer of src/src/engine/input.ts: the              *)
(* GamepadManager (poll loop, button and axis queries) and the             *)
(* InputManager (key/mouse listeners, the per-frame updateCallback, the    *)
(* action registry, addAction and isActive).                               *)
(*                                                                         *)
(* Numbers.  Times (dt, bufferDuration) are integers in units of 0.001 of  *)
(* the number the code holds: bufferDuration 0.03 is 30, a dt of 0.016 is  *)
(* 16, and a dt of 16 (a 60 Hz frame measured by performance.now(), which  *)
(* counts milliseconds) is 16000.  Analog readings are integers in units   *)
(* of 1/AxisScale; a query's numeric result is a fraction [n, d] (d = 0    *)
(* is NaN).                                                                *)
(*                                                                         *)
(* JavaScript values.  null and undefined are the records Null and         *)
(* Undefined.  A call's outcome is a record [err, val]: err is "none" when *)
(* the call returns val and the name of the exception when it throws.      *)
(***************************************************************************)
EXTENDS Integers, Sequences, FiniteSets, TLC

VARIABLES
    padIndex,         \* GamepadManager._padIndex (constructor argument)
    hasGamepad,       \* InputManager.gamepad !== null (constructor argument)
    hostShort,        \* the host lists pads in an array with no trailing empty slots
    innerDeadzone,    \* GamepadManager.innerDeadzone
    outerDeadzone,    \* GamepadManager.outerDeadzone
    bufferDuration,   \* InputManager.bufferDuration
    pads,             \* the physical pads: slot -> what the device reports
    plugged,          \* the slots whose pad is connected to the host
    gamepad,          \* GamepadManager.gamepad
    triggersAreAxes,  \* GamepadManager.triggersAreAxes: "undefined", "true", "false"
    pollAlive,        \* pollInput is scheduled for the next animation frame
    heldKeys,         \* the key codes physically down (last event was keydown)
    heldMouse,        \* the mouse buttons physically down
    keyStates,        \* InputManager.keyStates: the names whose entry is true
    actions,          \* InputManager.actions: name -> InputAction
    order,            \* the registry's property order (Object.values)
    tickAlive,        \* updateCallback is scheduled for the next animation frame
    result,           \* what the last operation did and returned
    obs               \* the history observers of the watched press action

vars == <<padIndex, hasGamepad, hostShort, innerDeadzone, outerDeadzone, bufferDuration, pads,
          plugged, gamepad, triggersAreAxes, pollAlive, heldKeys, heldMouse, keyStates, actions, order, tickAlive,
          result, obs>>

configVars == <<padIndex, hasGamepad, hostShort, innerDeadzone, outerDeadzone, bufferDuration>>
hostVars == <<pads, plugged>>
managerVars == <<gamepad, triggersAreAxes, pollAlive>>
keyVars == <<heldKeys, heldMouse, keyStates>>
registryVars == <<actions, order, tickAlive>>

(***************************************************************************)
(* Bounds of the model.                                                    *)
(***************************************************************************)
NumSlots == 2
\* the observers count the ticks of a held press up to MaxRun and the true answers
\* of isActive up to MaxTrues
MaxRun == 6
MaxTrues == 2
\* the clock time after a press fired at which the observer stops adding, in 0.001
\* of a millisecond
MaxSince == 40000

(***************************************************************************)
(* Values.                                                                 *)
(***************************************************************************)
Null == [tag |-> "null"]
Undefined == [tag |-> "undefined"]

Ok(v) == [err |-> "none", val |-> v]
Throw(e) == [err |-> e, val |-> FALSE]

Frac(n, d) == [n |-> n, d |-> d]
NaN == Frac(0, 0)
Zero == Frac(0, 1)
IsNumber(q) == q.d # 0
FracEq(p, q) == IsNumber(p) /\ IsNumber(q) /\ p.n * q.d = q.n * p.d
Abs(v) == IF v < 0 THEN -v ELSE v

\* One unit of an analog reading is 1/AxisScale: 1.0 is AxisScale.
AxisScale == 4 * 5

(***************************************************************************)
(* Enumerations and lookup tables.                                         *)
(***************************************************************************)
LEFT_TRIGGER_FULL_PULL == 17
RIGHT_TRIGGER_FULL_PULL == 18
AXIS_LEFT_TRIGGER == 4
AXIS_RIGHT_TRIGGER == 5
GamepadButtons == 0..18
GamepadAxes == 0..5
Thumbsticks == {"LEFT", "RIGHT"}

\* The value of GAMEPAD_BUTTON_LOOKUP[b] for a string that is no key of the table.
UndefinedButton == -1

GAMEPAD_BUTTON_LOOKUP ==
    [s \in {"a", "b", "x", "y", "left bumper", "right bumper", "left trigger",
            "right trigger", "share", "options", "left stick click",
            "right stick click", "dpad up", "dpad down", "dpad left", "dpad right",
            "home", "left trigger full pull", "right trigger full pull"} |->
        CASE s = "a" -> 0
          [] s = "b" -> 1
          [] s = "x" -> 2
          [] s = "y" -> 3
          [] s = "left bumper" -> 4
          [] s = "right bumper" -> 5
          [] s = "left trigger" -> 6
          [] s = "right trigger" -> 7
          [] s = "share" -> 8
          [] s = "options" -> 9
          [] s = "left stick click" -> 10
          [] s = "right stick click" -> 11
          [] s = "dpad up" -> 12
          [] s = "dpad down" -> 13
          [] s = "dpad left" -> 14
          [] s = "dpad right" -> 15
          [] s = "home" -> 16
          [] s = "left trigger full pull" -> 17
          [] s = "right trigger full pull" -> 18]

\* The table ALTERNATE_KEY_NAMES.
ALTERNATE_KEY_NAMES ==
    ("Space" :> " ") @@ ("Backquote" :> "`") @@ ("Minus" :> "-") @@ ("Equal" :> "=") @@
    ("BracketLeft" :> "[") @@ ("BracketRight" :> "]") @@ ("Backslash" :> "\\") @@
    ("Semicolon" :> ";") @@ ("Quote" :> "'") @@ ("Comma" :> ",") @@
    ("Period" :> ".") @@ ("Slash" :> "/") @@ ("ShiftLeft" :> "left shift") @@
    ("ShiftRight" :> "right shift") @@ ("ControlLeft" :> "left control") @@
    ("ControlRight" :> "right control") @@ ("AltLeft" :> "left alt") @@
    ("AltRight" :> "right alt") @@ ("CapsLock" :> "caps lock") @@
    ("NumLock" :> "num lock") @@ ("ScrollLock" :> "scroll lock") @@
    ("PageUp" :> "page up") @@ ("PageDown" :> "page down") @@ ("ArrowUp" :> "up") @@
    ("ArrowDown" :> "down") @@ ("ArrowLeft" :> "left") @@ ("ArrowRight" :> "right") @@
    ("Numpad0" :> "numpad 0") @@ ("Numpad1" :> "numpad 1") @@
    ("Numpad2" :> "numpad 2") @@ ("Numpad3" :> "numpad 3") @@
    ("Numpad4" :> "numpad 4") @@ ("Numpad5" :> "numpad 5") @@
    ("Numpad6" :> "numpad 6") @@ ("Numpad7" :> "numpad 7") @@
    ("Numpad8" :> "numpad 8") @@ ("Numpad9" :> "numpad 9") @@
    ("NumpadAdd" :> "numpad +") @@ ("NumpadSubtract" :> "numpad -") @@
    ("NumpadMultiply" :> "numpad *") @@ ("NumpadDivide" :> "numpad /") @@
    ("NumpadEnter" :> "numpad enter") @@ ("NumpadDecimal" :> "numpad .")

\* The values of KeyboardEvent.code of a standard keyboard.
StandardCodes ==
    {"Backquote", "Backslash", "BracketLeft", "BracketRight", "Comma", "Digit0",
    "Digit1", "Digit2", "Digit3", "Digit4", "Digit5", "Digit6", "Digit7", "Digit8",
    "Digit9", "Equal", "IntlBackslash", "IntlRo", "IntlYen", "KeyA", "KeyB", "KeyC",
    "KeyD", "KeyE", "KeyF", "KeyG", "KeyH", "KeyI", "KeyJ", "KeyK", "KeyL", "KeyM",
    "KeyN", "KeyO", "KeyP", "KeyQ", "KeyR", "KeyS", "KeyT", "KeyU", "KeyV", "KeyW",
    "KeyX", "KeyY", "KeyZ", "Minus", "Period", "Quote", "Semicolon", "Slash",
    "AltLeft", "AltRight", "Backspace", "CapsLock", "ContextMenu", "ControlLeft",
    "ControlRight", "Enter", "MetaLeft", "MetaRight", "ShiftLeft", "ShiftRight",
    "Space", "Tab", "Delete", "End", "Help", "Home", "Insert", "PageDown", "PageUp",
    "ArrowDown", "ArrowLeft", "ArrowRight", "ArrowUp", "NumLock", "Numpad0", "Numpad1",
    "Numpad2", "Numpad3", "Numpad4", "Numpad5", "Numpad6", "Numpad7", "Numpad8",
    "Numpad9", "NumpadAdd", "NumpadComma", "NumpadDecimal", "NumpadDivide",
    "NumpadEnter", "NumpadEqual", "NumpadMultiply", "NumpadSubtract", "Escape", "F1",
    "F2", "F3", "F4", "F5", "F6", "F7", "F8", "F9", "F10", "F11", "F12", "PrintScreen",
    "ScrollLock", "Pause"}

\* toLowerCase of the key codes and of the capital letters
CodeLowerCase ==
    ("Backquote" :> "backquote") @@ ("Backslash" :> "backslash") @@
    ("BracketLeft" :> "bracketleft") @@ ("BracketRight" :> "bracketright") @@
    ("Comma" :> "comma") @@ ("Digit0" :> "digit0") @@ ("Digit1" :> "digit1") @@
    ("Digit2" :> "digit2") @@ ("Digit3" :> "digit3") @@ ("Digit4" :> "digit4") @@
    ("Digit5" :> "digit5") @@ ("Digit6" :> "digit6") @@ ("Digit7" :> "digit7") @@
    ("Digit8" :> "digit8") @@ ("Digit9" :> "digit9") @@ ("Equal" :> "equal") @@
    ("IntlBackslash" :> "intlbackslash") @@ ("IntlRo" :> "intlro") @@
    ("IntlYen" :> "intlyen") @@ ("KeyA" :> "keya") @@ ("KeyB" :> "keyb") @@
    ("KeyC" :> "keyc") @@ ("KeyD" :> "keyd") @@ ("KeyE" :> "keye") @@
    ("KeyF" :> "keyf") @@ ("KeyG" :> "keyg") @@ ("KeyH" :> "keyh") @@
    ("KeyI" :> "keyi") @@ ("KeyJ" :> "keyj") @@ ("KeyK" :> "keyk") @@
    ("KeyL" :> "keyl") @@ ("KeyM" :> "keym") @@ ("KeyN" :> "keyn") @@
    ("KeyO" :> "keyo") @@ ("KeyP" :> "keyp") @@ ("KeyQ" :> "keyq") @@
    ("KeyR" :> "keyr") @@ ("KeyS" :> "keys") @@ ("KeyT" :> "keyt") @@
    ("KeyU" :> "keyu") @@ ("KeyV" :> "keyv") @@ ("KeyW" :> "keyw") @@
    ("KeyX" :> "keyx") @@ ("KeyY" :> "keyy") @@ ("KeyZ" :> "keyz") @@
    ("Minus" :> "minus") @@ ("Period" :> "period") @@ ("Quote" :> "quote") @@
    ("Semicolon" :> "semicolon") @@ ("Slash" :> "slash") @@ ("AltLeft" :> "altleft") @@
    ("AltRight" :> "altright") @@ ("Backspace" :> "backspace") @@
    ("CapsLock" :> "capslock") @@ ("ContextMenu" :> "contextmenu") @@
    ("ControlLeft" :> "controlleft") @@ ("ControlRight" :> "controlright") @@
    ("Enter" :> "enter") @@ ("MetaLeft" :> "metaleft") @@
    ("MetaRight" :> "metaright") @@ ("ShiftLeft" :> "shiftleft") @@
    ("ShiftRight" :> "shiftright") @@ ("Space" :> "space") @@ ("Tab" :> "tab") @@
    ("Delete" :> "delete") @@ ("End" :> "end") @@ ("Help" :> "help") @@
    ("Home" :> "home") @@ ("Insert" :> "insert") @@ ("PageDown" :> "pagedown") @@
    ("PageUp" :> "pageup") @@ ("ArrowDown" :> "arrowdown") @@
    ("ArrowLeft" :> "arrowleft") @@ ("ArrowRight" :> "arrowright") @@
    ("ArrowUp" :> "arrowup") @@ ("NumLock" :> "numlock") @@ ("Numpad0" :> "numpad0") @@
    ("Numpad1" :> "numpad1") @@ ("Numpad2" :> "numpad2") @@ ("Numpad3" :> "numpad3") @@
    ("Numpad4" :> "numpad4") @@ ("Numpad5" :> "numpad5") @@ ("Numpad6" :> "numpad6") @@
    ("Numpad7" :> "numpad7") @@ ("Numpad8" :> "numpad8") @@ ("Numpad9" :> "numpad9") @@
    ("NumpadAdd" :> "numpadadd") @@ ("NumpadComma" :> "numpadcomma") @@
    ("NumpadDecimal" :> "numpaddecimal") @@ ("NumpadDivide" :> "numpaddivide") @@
    ("NumpadEnter" :> "numpadenter") @@ ("NumpadEqual" :> "numpadequal") @@
    ("NumpadMultiply" :> "numpadmultiply") @@ ("NumpadSubtract" :> "numpadsubtract") @@
    ("Escape" :> "escape") @@ ("F1" :> "f1") @@ ("F2" :> "f2") @@ ("F3" :> "f3") @@
    ("F4" :> "f4") @@ ("F5" :> "f5") @@ ("F6" :> "f6") @@ ("F7" :> "f7") @@
    ("F8" :> "f8") @@ ("F9" :> "f9") @@ ("F10" :> "f10") @@ ("F11" :> "f11") @@
    ("F12" :> "f12") @@ ("PrintScreen" :> "printscreen") @@
    ("ScrollLock" :> "scrolllock") @@ ("Pause" :> "pause") @@ ("A" :> "a") @@
    ("B" :> "b") @@ ("C" :> "c") @@ ("D" :> "d") @@ ("E" :> "e") @@ ("F" :> "f") @@
    ("G" :> "g") @@ ("H" :> "h") @@ ("I" :> "i") @@ ("J" :> "j") @@ ("K" :> "k") @@
    ("L" :> "l") @@ ("M" :> "m") @@ ("N" :> "n") @@ ("O" :> "o") @@ ("P" :> "p") @@
    ("Q" :> "q") @@ ("R" :> "r") @@ ("S" :> "s") @@ ("T" :> "t") @@ ("U" :> "u") @@
    ("V" :> "v") @@ ("W" :> "w") @@ ("X" :> "x") @@ ("Y" :> "y") @@ ("Z" :> "z")

\* String.prototype.toLowerCase on the strings the model uses.
ToLowerCase(s) ==
    CASE s \in {"Shift", "SHIFT", "shift"} -> "shift"
      [] s \in {"Alt", "ALT", "alt"} -> "alt"
      [] s \in {"Control", "CONTROL", "control"} -> "control"
      [] s \in DOMAIN CodeLowerCase -> CodeLowerCase[s]
      [] s = "Space" -> "space"
      [] s = "ShiftLeft" -> "shiftleft"
      [] s = "ShiftRight" -> "shiftright"
      [] s = "ControlLeft" -> "controlleft"
      [] s = "ControlRight" -> "controlright"
      [] s = "AltLeft" -> "altleft"
      [] s = "AltRight" -> "altright"
      [] s = "KeyA" -> "keya"
      [] s = "Digit1" -> "digit1"
      [] s = "A" -> "a"
      [] s = "Left Mouse" -> "left mouse"
      [] s = "Left Click" -> "left click"
      [] OTHER -> s

\* event.code.startsWith("Key") and event.code.slice(3)
LetterCodes ==
    {"KeyA", "KeyB", "KeyC", "KeyD", "KeyE", "KeyF", "KeyG", "KeyH", "KeyI", "KeyJ",
    "KeyK", "KeyL", "KeyM", "KeyN", "KeyO", "KeyP", "KeyQ", "KeyR", "KeyS", "KeyT",
    "KeyU", "KeyV", "KeyW", "KeyX", "KeyY", "KeyZ"}
LetterOf ==
    ("KeyA" :> "A") @@ ("KeyB" :> "B") @@ ("KeyC" :> "C") @@ ("KeyD" :> "D") @@
    ("KeyE" :> "E") @@ ("KeyF" :> "F") @@ ("KeyG" :> "G") @@ ("KeyH" :> "H") @@
    ("KeyI" :> "I") @@ ("KeyJ" :> "J") @@ ("KeyK" :> "K") @@ ("KeyL" :> "L") @@
    ("KeyM" :> "M") @@ ("KeyN" :> "N") @@ ("KeyO" :> "O") @@ ("KeyP" :> "P") @@
    ("KeyQ" :> "Q") @@ ("KeyR" :> "R") @@ ("KeyS" :> "S") @@ ("KeyT" :> "T") @@
    ("KeyU" :> "U") @@ ("KeyV" :> "V") @@ ("KeyW" :> "W") @@ ("KeyX" :> "X") @@
    ("KeyY" :> "Y") @@ ("KeyZ" :> "Z")
StartsWithKey(c) == c \in LetterCodes
Slice3(c) == IF c \in LetterCodes THEN LetterOf[c] ELSE c
\* event.code.startsWith("Digit") and event.code.slice(5)
DigitCodes ==
    {"Digit0", "Digit1", "Digit2", "Digit3", "Digit4", "Digit5", "Digit6", "Digit7",
    "Digit8", "Digit9"}
DigitOf ==
    ("Digit0" :> "0") @@ ("Digit1" :> "1") @@ ("Digit2" :> "2") @@ ("Digit3" :> "3") @@
    ("Digit4" :> "4") @@ ("Digit5" :> "5") @@ ("Digit6" :> "6") @@ ("Digit7" :> "7") @@
    ("Digit8" :> "8") @@ ("Digit9" :> "9")
StartsWithDigit(c) == c \in DigitCodes
Slice5(c) == IF c \in DigitCodes THEN DigitOf[c] ELSE c

(***************************************************************************)
(* The host: navigator.getGamepads().                                      *)
(***************************************************************************)
Slots == 0..(NumSlots - 1)

\* The Gamepad object the host hands out for a device.  A device that reports its
\* triggers through the axes has six axes, the others four; buttons 6 and 7 carry
\* the trigger's analog value either way.
Snapshot(d) ==
    [tag |-> "pad",
     nButtons |-> 17,
     pressed |-> d.pressed \cup (IF d.pull > 0 THEN {6} ELSE {}),
     value6 |-> d.pull,
     value7 |-> 0,
     axes |-> IF d.axesMode
              THEN <<d.stick, 0, 0, 0, 2 * d.pull - AxisScale, -AxisScale>>
              ELSE <<d.stick, 0, 0, 0>>]

HostLen ==
    IF hostShort
    THEN IF plugged = {} THEN 0
         ELSE 1 + CHOOSE i \in plugged : \A j \in plugged : j <= i
    ELSE NumSlots

\* The array navigator.getGamepads() returns (index i of the array is element i + 1).
GetGamepads ==
    [i \in 1..HostLen |-> IF (i - 1) \in plugged THEN Snapshot(pads[i - 1]) ELSE Null]

(***************************************************************************)
(* GamepadManager.                                                         *)
(***************************************************************************)
\* the values the fields innerDeadzone and outerDeadzone are initialised with
InnerDeadzone == 2
OuterDeadzone == 1

\* array[i] of a JavaScript array held as a sequence: Undefined past the end
AxisAt(g, i) == IF i + 1 <= Len(g.axes) THEN Frac(g.axes[i + 1], AxisScale) ELSE NaN
HasAxis(g, i) == i + 1 <= Len(g.axes)

\* an applyDeadzone that drops the sign of the reading between the deadzones
applyDeadzoneUnsigned(value, inner, outer) ==
    IF Abs(value) < inner THEN Zero
    ELSE LET edge == AxisScale - outer IN
         IF Abs(value) > edge THEN (IF value < 0 THEN Frac(-1, 1) ELSE Frac(1, 1))
         ELSE Frac(Abs(value) - inner, edge - inner)

\* an applyDeadzone that takes outer for the edge itself, not for the distance from 1
applyDeadzoneOuterIsEdge(value, inner, outer) ==
    IF Abs(value) < inner THEN Zero
    ELSE IF Abs(value) > outer THEN (IF value < 0 THEN Frac(-1, 1) ELSE Frac(1, 1))
         ELSE IF value < 0 THEN Frac(-(Abs(value) - inner), outer - inner)
              ELSE Frac(Abs(value) - inner, outer - inner)

applyDeadzone(value, inner, outer) ==
    IF Abs(value) < inner THEN Zero
    ELSE LET edge == AxisScale - outer IN
         IF Abs(value) > edge THEN (IF value < 0 THEN Frac(-1, 1) ELSE Frac(1, 1))
         ELSE IF value < 0 THEN Frac(-(Abs(value) - inner), edge - inner)
              ELSE Frac(Abs(value) - inner, edge - inner)

connected(g) == g # Null

buttonPressed(g, tAxes, button) ==
    IF g = Null THEN Ok(FALSE)
    ELSE IF g = Undefined THEN Throw("TypeError")
    ELSE IF button = LEFT_TRIGGER_FULL_PULL
         THEN IF tAxes = "true"
              THEN Ok(HasAxis(g, AXIS_LEFT_TRIGGER) /\ g.axes[AXIS_LEFT_TRIGGER + 1] = AxisScale)
              ELSE IF 6 < g.nButtons THEN Ok(g.value6 = AxisScale) ELSE Throw("TypeError")
    ELSE IF button = RIGHT_TRIGGER_FULL_PULL
         THEN IF tAxes = "true"
              THEN Ok(HasAxis(g, AXIS_RIGHT_TRIGGER) /\ g.axes[AXIS_RIGHT_TRIGGER + 1] = AxisScale)
              ELSE IF 7 < g.nButtons THEN Ok(g.value7 = AxisScale) ELSE Throw("TypeError")
    ELSE IF button \in 0..(g.nButtons - 1) THEN Ok(button \in g.pressed)
         ELSE Throw("TypeError")

\* an axisValue that passes the left trigger through the deadzone like a stick
axisValueDeadzonesTriggers(g, tAxes, axis, rawValue) ==
    IF g = Null THEN Ok(Zero)
    ELSE IF g = Undefined THEN Throw("TypeError")
    ELSE IF axis = AXIS_LEFT_TRIGGER
         THEN IF rawValue THEN Ok(Frac(g.value6, AxisScale))
              ELSE Ok(applyDeadzone(g.value6, innerDeadzone, outerDeadzone))
    ELSE IF axis = AXIS_RIGHT_TRIGGER THEN Ok(Frac(g.value7, AxisScale))
    ELSE IF rawValue THEN Ok(AxisAt(g, axis))
         ELSE Ok(applyDeadzone(g.axes[axis + 1], innerDeadzone, outerDeadzone))

axisValue(g, tAxes, axis, rawValue) ==
    IF g = Null THEN Ok(Zero)
    ELSE IF g = Undefined THEN Throw("TypeError")
    ELSE IF axis = AXIS_LEFT_TRIGGER
         THEN IF tAxes = "true"
              THEN Ok(IF HasAxis(g, 4) THEN Frac(g.axes[5] + AxisScale, 2 * AxisScale) ELSE NaN)
              ELSE IF 6 < g.nButtons THEN Ok(Frac(g.value6, AxisScale)) ELSE Throw("TypeError")
    ELSE IF axis = AXIS_RIGHT_TRIGGER
         THEN IF tAxes = "true"
              THEN Ok(IF HasAxis(g, 5) THEN Frac(g.axes[6] + AxisScale, 2 * AxisScale) ELSE NaN)
              ELSE IF 7 < g.nButtons THEN Ok(Frac(g.value7, AxisScale)) ELSE Throw("TypeError")
    ELSE IF rawValue THEN Ok(AxisAt(g, axis))
         ELSE Ok(applyDeadzone(g.axes[axis + 1], innerDeadzone, outerDeadzone))

stickPos(g, tAxes, stick, rawValue) ==
    LET ax == IF stick = "LEFT" THEN 0 ELSE 2
        x == axisValue(g, tAxes, ax, rawValue)
        y == axisValue(g, tAxes, ax + 1, rawValue)
    IN  IF x.err # "none" THEN x
        ELSE IF y.err # "none" THEN y
        ELSE Ok(<<x.val, y.val>>)

\* What pollInput assigns to this.gamepad.
\* a poll that takes the last pad of the list in any-pad mode
PolledLast(list, index) ==
    IF index # -1
    THEN IF index + 1 <= Len(list) THEN list[index + 1] ELSE Undefined
    ELSE IF \E i \in 1..Len(list) : list[i] # Null
         THEN list[CHOOSE i \in 1..Len(list) :
                       list[i] # Null /\ \A j \in (i + 1)..Len(list) : list[j] = Null]
         ELSE Null

Polled(list, index) ==
    IF index # -1
    THEN IF index + 1 <= Len(list) THEN list[index + 1] ELSE Undefined
    ELSE IF \E i \in 1..Len(list) : list[i] # Null
         THEN list[CHOOSE i \in 1..Len(list) :
                       list[i] # Null /\ \A j \in 1..(i - 1) : list[j] = Null]
         ELSE Null

(***************************************************************************)
(* InputManager: the names the canvas listeners write.                     *)
(***************************************************************************)
\* keyStates is held as the set of the names whose entry is true: an entry that is
\* false and one that was never written (undefined) are both falsy and not in it.
\* The keyStates entries a key event with this code writes.
KeyEventNames(code) ==
    (IF code \in DOMAIN ALTERNATE_KEY_NAMES THEN {ALTERNATE_KEY_NAMES[code]}
     ELSE IF StartsWithKey(code) THEN {ToLowerCase(Slice3(code))}
     ELSE IF StartsWithDigit(code) THEN {ToLowerCase(Slice5(code))}
     ELSE {})
    \cup {ToLowerCase(code)}

\* mouse listeners whose last branch takes every other button index
MouseEventNamesElseRight(button) ==
    IF button = 0 THEN {"left click", "left mouse"}
    ELSE IF button = 1 THEN {"middle click", "middle mouse"}
    ELSE {"right click", "right mouse"}

\* The keyStates entries a mouse event with this button index writes.
MouseEventNames(button) ==
    IF button = 0 THEN {"left click", "left mouse"}
    ELSE IF button = 1 THEN {"middle click", "middle mouse"}
    ELSE IF button = 2 THEN {"right click", "right mouse"}
    ELSE {}

\* this.keyStates[n] = v for every n of names
Assign(ks, names, v) == IF v THEN ks \cup names ELSE ks \ names

(***************************************************************************)
(* InputManager: the actions' update functions.                            *)
(***************************************************************************)
DefaultBufferDuration == 30

\* a hold update that only ever switches the action on
holdUpdateSticky(a, pressed, dt) == [a EXCEPT !.active = @ \/ pressed]

holdUpdate(a, pressed, dt) == [a EXCEPT !.active = pressed]

\* the press update with the buffer test bufferDuration >= 0
pressUpdateGe(a, pressed, dt) ==
    IF pressed
    THEN IF a.bufferDuration >= 0
         THEN [a EXCEPT !.bufferDuration = @ - dt, !.active = TRUE]
         ELSE IF a.wasActive
              THEN [a EXCEPT !.active = FALSE]
              ELSE [a EXCEPT !.active = TRUE, !.wasActive = TRUE,
                             !.bufferDuration = bufferDuration]
    ELSE [a EXCEPT !.wasActive = FALSE, !.active = FALSE]

\* a press update that lets leftover buffer time keep the action active after its
\* triggers went up
pressUpdateBufferFirst(a, pressed, dt) ==
    IF a.bufferDuration > 0
    THEN [a EXCEPT !.bufferDuration = @ - dt, !.active = TRUE]
    ELSE IF pressed
         THEN IF a.wasActive
              THEN [a EXCEPT !.active = FALSE]
              ELSE [a EXCEPT !.active = TRUE, !.wasActive = TRUE,
                             !.bufferDuration = bufferDuration]
         ELSE [a EXCEPT !.wasActive = FALSE, !.active = FALSE]

\* a press update that fires without noting that it has fired
pressUpdateNoLatch(a, pressed, dt) ==
    IF pressed
    THEN IF a.bufferDuration > 0
         THEN [a EXCEPT !.bufferDuration = @ - dt, !.active = TRUE]
         ELSE IF a.wasActive
              THEN [a EXCEPT !.active = FALSE]
              ELSE [a EXCEPT !.active = TRUE, !.bufferDuration = bufferDuration]
    ELSE [a EXCEPT !.wasActive = FALSE, !.active = FALSE]

pressUpdate(a, pressed, dt) ==
    IF pressed
    THEN IF a.bufferDuration > 0
         THEN [a EXCEPT !.bufferDuration = @ - dt, !.active = TRUE]
         ELSE IF a.wasActive
              THEN [a EXCEPT !.active = FALSE]
              ELSE [a EXCEPT !.active = TRUE, !.wasActive = TRUE,
                             !.bufferDuration = bufferDuration]
    ELSE [a EXCEPT !.wasActive = FALSE, !.active = FALSE]

update(a, pressed, dt) ==
    IF a.type = "hold" THEN holdUpdate(a, pressed, dt) ELSE pressUpdate(a, pressed, dt)

(***************************************************************************)
(* InputManager: the body of updateCallback.                               *)
(***************************************************************************)
\* whether this.keyStates[k] is truthy
KeyState(ks, k) == k \in ks

RECURSIVE someButton(_, _, _, _)
\* action.buttons.some((b) => this.gamepad.buttonPressed(b)) from element i on
someButton(g, tAxes, buttons, i) ==
    IF i > Len(buttons) THEN Ok(FALSE)
    ELSE LET r == buttonPressed(g, tAxes, buttons[i]) IN
         IF r.err # "none" THEN r
         ELSE IF r.val THEN Ok(TRUE)
         ELSE someButton(g, tAxes, buttons, i + 1)

\* an actionPressed that never asks the gamepad
actionPressedKeysOnly(a, ks, hasPad, g, tAxes) ==
    Ok(\E i \in 1..Len(a.keys) : KeyState(ks, a.keys[i]))

\* the value of actionPressed handed to action.update
actionPressed(a, ks, hasPad, g, tAxes) ==
    LET byKey == \E i \in 1..Len(a.keys) : KeyState(ks, a.keys[i]) IN
    IF ~byKey /\ hasPad /\ connected(g)
    THEN someButton(g, tAxes, a.buttons, 1)
    ELSE Ok(byKey)

RECURSIVE updateAllKeysCleared(_, _, _, _)
\* a loop that clears keyStates once it has updated the first action
updateAllKeysCleared(acts, raw, i, dt) ==
    IF i > Len(order) THEN [acts |-> acts, raw |-> raw, threw |-> FALSE]
    ELSE LET name == order[i]
             p == actionPressed(acts[name], IF i = 1 THEN keyStates ELSE {},
                                hasGamepad, gamepad, triggersAreAxes)
         IN  IF p.err # "none" THEN [acts |-> acts, raw |-> raw, threw |-> TRUE]
             ELSE updateAllKeysCleared([acts EXCEPT ![name] = update(@, p.val, dt)],
                                       [n \in DOMAIN raw \cup {name} |->
                                           IF n = name THEN p.val ELSE raw[n]],
                                       i + 1, dt)

RECURSIVE updateAll(_, _, _, _)
\* the loop over Object.values(this.actions) from position i on: the registry it
\* leaves, the actionPressed value of every action it updated, and whether it threw
updateAll(acts, raw, i, dt) ==
    IF i > Len(order) THEN [acts |-> acts, raw |-> raw, threw |-> FALSE]
    ELSE LET name == order[i]
             p == actionPressed(acts[name], keyStates, hasGamepad, gamepad,
                                triggersAreAxes)
         IN  IF p.err # "none" THEN [acts |-> acts, raw |-> raw, threw |-> TRUE]
             ELSE updateAll([acts EXCEPT ![name] = update(@, p.val, dt)],
                            [n \in DOMAIN raw \cup {name} |->
                                IF n = name THEN p.val ELSE raw[n]],
                            i + 1, dt)

(***************************************************************************)
(* InputManager: the parts of addAction and isActive.                      *)
(***************************************************************************)
Str(s) == [kind |-> "string", s |-> s]
Btn(b) == [kind |-> "button", b |-> b]

\* an argument of the call, or its default when the caller left it out
Arg(call, field, default) == IF field \in call.given THEN call[field] ELSE default

RECURSIVE expandKeysLeftOnly(_, _)
\* a key expansion that maps a modifier's short name to its left key alone
expandKeysLeftOnly(keys, i) ==
    IF i > Len(keys) THEN <<>>
    ELSE LET k == ToLowerCase(keys[i]) IN
         (IF k = "shift" THEN <<"left shift">>
          ELSE IF k = "alt" THEN <<"left alt">>
          ELSE IF k = "control" THEN <<"left control">>
          ELSE <<k>>) \o expandKeysLeftOnly(keys, i + 1)

RECURSIVE expandKeys(_, _)
\* the actionKeys list built from keys[i..]
expandKeys(keys, i) ==
    IF i > Len(keys) THEN <<>>
    ELSE LET k == ToLowerCase(keys[i]) IN
         (IF k = "shift" THEN <<"left shift", "right shift">>
          ELSE IF k = "alt" THEN <<"left alt", "right alt">>
          ELSE IF k = "control" THEN <<"left control", "right control">>
          ELSE <<k>>) \o expandKeys(keys, i + 1)

\* buttons.map((b) => typeof b === "string" ? GAMEPAD_BUTTON_LOOKUP[b] : b)
mapButtons(buttons) ==
    [i \in 1..Len(buttons) |->
        IF buttons[i].kind = "string"
        THEN IF buttons[i].s \in DOMAIN GAMEPAD_BUTTON_LOOKUP
             THEN GAMEPAD_BUTTON_LOOKUP[buttons[i].s]
             ELSE UndefinedButton
        ELSE buttons[i].b]

\* a new action that starts out active
newActionActive(keys, buttons, type) ==
    [active |-> TRUE,
     keys |-> expandKeys(keys, 1),
     buttons |-> mapButtons(buttons),
     type |-> IF type = "hold" THEN "hold" ELSE "press",
     wasActive |-> FALSE,
     bufferDuration |-> 0]

newAction(keys, buttons, type) ==
    [active |-> FALSE,
     keys |-> expandKeys(keys, 1),
     buttons |-> mapButtons(buttons),
     type |-> IF type = "hold" THEN "hold" ELSE "press",
     wasActive |-> FALSE,
     bufferDuration |-> 0]

\* an addAction that never rejects a call
addActionRejectsNever(keys, buttons) == FALSE

\* whether addAction rejects the call
addActionRejects(keys, buttons) == Len(keys) = 0 /\ Len(buttons) = 0

\* whether isActive finds the action: this.actions.hasOwnProperty(name)
hasAction(acts, name) == name \in DOMAIN acts

\* an isActive that answers true only while buffer time is left
isActiveValueConsumed(a) == a.active /\ a.bufferDuration > 0

\* what isActive returns for an action it found
isActiveValue(a) == a.active

\* an isActive that answers false for a name it did not find
notFoundDefault(name) == Ok(FALSE)

\* the outcome of isActive for a name it did not find
notFound(name) == Throw("InvalidArgumentError")

(***************************************************************************)
(* History observers.  They record, for the action named Watched, what the *)
(* temporal statements about a press need to know of the past; they read   *)
(* the program's state and never change it.  They run only when obs.on.    *)
(***************************************************************************)
Watched == "press action"

Fresh == [active |-> FALSE, wasActive |-> FALSE, bufferDuration |-> 0]
IsFresh(a) == ~a.active /\ ~a.wasActive /\ a.bufferDuration = 0
Min(x, y) == IF x < y THEN x ELSE y

\* the observer that only tells one frame from the next
ObsFrames == [on |-> FALSE, frame |-> 0]
ObsOff == [on |-> FALSE]
\* the observer that reads the clock: whether the watched press has fired and has
\* been held ever since with no isActive call, and the sum of the clock differences
\* of the ticks after the firing one, which stops counting at MaxSince
ObsClock == [on |-> FALSE, fired |-> FALSE, since |-> 0]
\* the observer of an application that either calls isActive for the watched
\* action once after every tick or never calls it: whether the last tick has been
\* asked about, what the last tick saw of the action's triggers (nothing, after
\* registration), and whether it was the first tick to see them down
ObsDraw(q) == [on |-> FALSE, query |-> q, asked |-> TRUE, seen |-> FALSE, rising |-> FALSE]

ObsInit ==
    [on |-> TRUE,
     run |-> 0,               \* ticks of the run: pressed, dt = 0.016, no query, from fresh
     shadow |-> Fresh,        \* the same press played from the fresh state
     trues |-> 0,             \* true answers of isActive since the last release tick
     queried |-> FALSE,       \* isActive was called since the last tick
     multi |-> FALSE,         \* isActive was called twice between two ticks
     latched |-> FALSE,       \* a tick reported active = false while held
     unreleasedKeys |-> {},   \* trigger keys down at that tick and ever since
     unreleasedButtons |-> {}]\* trigger pad buttons down at that tick and ever since

\* whether the device holds the button down
DeviceButtonDown(d, b) ==
    IF b = LEFT_TRIGGER_FULL_PULL THEN d.pull = AxisScale
    ELSE b \in Snapshot(d).pressed

\* the trigger keys that are down in keyStates
DownKeys(a, ks) == {k \in {a.keys[i] : i \in 1..Len(a.keys)} : KeyState(ks, k)}
\* the trigger buttons that the manager's snapshot shows pressed and that a device
\* holds down
DownButtons(a, devices) ==
    {b \in {a.buttons[i] : i \in 1..Len(a.buttons)} :
        /\ hasGamepad
        /\ buttonPressed(gamepad, triggersAreAxes, b) = Ok(TRUE)
        /\ \E s \in Slots : DeviceButtonDown(devices[s], b)}

\* after a tick with clock difference dt whose loop returned r; an observer that
\* only counts frames notes that prevTimestamp has moved on
ObsTick(o, dt, r) ==
    IF "asked" \in DOMAIN o
    THEN IF Watched \notin DOMAIN r.raw THEN o
         ELSE [o EXCEPT !.asked = FALSE,
                        !.seen = r.raw[Watched],
                        !.rising = r.raw[Watched] /\ ~o.seen]
    ELSE
    IF "since" \in DOMAIN o
    THEN IF Watched \notin DOMAIN r.raw \/ r.acts[Watched].type # "press" THEN o
         ELSE IF ~r.raw[Watched] THEN ObsClock
         ELSE IF ~actions[Watched].wasActive
              THEN [o EXCEPT !.fired = TRUE, !.since = 0]
         ELSE IF o.fired THEN [o EXCEPT !.since = Min(@ + dt, MaxSince)]
         ELSE o
    ELSE
    IF ~o.on THEN (IF "frame" \in DOMAIN o THEN [o EXCEPT !.frame = 1 - @] ELSE o)
    ELSE IF Watched \notin DOMAIN r.raw \/ r.acts[Watched].type # "press" THEN o
    ELSE LET old == actions[Watched]
             new == r.acts[Watched]
             p == r.raw[Watched]
             relatch == p /\ ~new.active /\ (old.active \/ ~o.latched)
         IN  [on |-> TRUE,
              run |-> IF p /\ dt = 16
                      THEN IF o.run > 0 THEN Min(o.run + 1, MaxRun)
                           ELSE IF IsFresh(old) THEN 1 ELSE 0
                      ELSE 0,
              shadow |-> IF p THEN pressUpdate(o.shadow, TRUE, dt) ELSE Fresh,
              trues |-> IF p /\ ~o.multi THEN o.trues ELSE 0,
              queried |-> FALSE,
              multi |-> o.multi,
              latched |-> o.latched \/ relatch,
              unreleasedKeys |-> IF relatch THEN DownKeys(new, keyStates)
                                 ELSE o.unreleasedKeys,
              unreleasedButtons |-> IF relatch THEN DownButtons(new, pads)
                                    ELSE o.unreleasedButtons]

\* after isActive(name) found the action
ObsIsActive(o, name) ==
    IF "asked" \in DOMAIN o
    THEN (IF name = Watched THEN [o EXCEPT !.asked = TRUE] ELSE o)
    ELSE
    IF "since" \in DOMAIN o /\ name = Watched THEN ObsClock
    ELSE
    IF ~o.on \/ name # Watched \/ actions[name].type # "press" THEN o
    ELSE LET m == o.multi \/ o.queried IN
         [o EXCEPT !.run = 0,
                   !.shadow.bufferDuration = 0,
                   !.multi = m,
                   !.queried = TRUE,
                   !.trues = IF m THEN 0
                             ELSE IF actions[name].active THEN Min(@ + 1, MaxTrues)
                             ELSE @]

\* after addAction registered the name
ObsAddAction(o, name) ==
    IF "asked" \in DOMAIN o
    THEN (IF name = Watched THEN ObsDraw(o.query) ELSE o)
    ELSE
    IF "since" \in DOMAIN o /\ name = Watched THEN ObsClock
    ELSE IF o.on /\ name = Watched THEN ObsInit ELSE o

\* after a key, mouse button or pad button went up
ObsRelease(o, ks, devices) ==
    IF ~o.on THEN o
    ELSE [o EXCEPT !.unreleasedKeys = {k \in @ : KeyState(ks, k)},
                   !.unreleasedButtons =
                       {b \in @ : \E s \in Slots : DeviceButtonDown(devices[s], b)}]

(***************************************************************************)
(* The physical pads.  A device keeps its state while it is unplugged.     *)
(***************************************************************************)
Event == [op |-> "event"]

HostPlug(i) ==
    /\ i \notin plugged
    /\ plugged' = plugged \cup {i}
    /\ result' = Event
    /\ UNCHANGED <<configVars, pads, managerVars, keyVars, registryVars, obs>>

HostUnplug(i) ==
    /\ i \in plugged
    /\ plugged' = plugged \ {i}
    /\ result' = Event
    /\ UNCHANGED <<configVars, pads, managerVars, keyVars, registryVars, obs>>

HostPress(i, b) ==
    /\ b \notin pads[i].pressed
    /\ pads' = [pads EXCEPT ![i].pressed = @ \cup {b}]
    /\ result' = Event
    /\ UNCHANGED <<configVars, plugged, managerVars, keyVars, registryVars, obs>>

HostRelease(i, b) ==
    /\ b \in pads[i].pressed
    /\ pads' = [pads EXCEPT ![i].pressed = @ \ {b}]
    /\ obs' = ObsRelease(obs, keyStates, pads')
    /\ result' = Event
    /\ UNCHANGED <<configVars, plugged, managerVars, keyVars, registryVars>>

\* the trigger is pulled to the given reading
HostPull(i, v) ==
    /\ pads[i].pull # v
    /\ pads' = [pads EXCEPT ![i].pull = v]
    /\ obs' = ObsRelease(obs, keyStates, pads')
    /\ result' = Event
    /\ UNCHANGED <<configVars, plugged, managerVars, keyVars, registryVars>>

(***************************************************************************)
(* GamepadManager: pollInput.                                              *)
(***************************************************************************)
\* a pollInput that decides the trigger mode anew for every pad it finds
PollInputRedecides ==
    /\ pollAlive
    /\ LET g == Polled(GetGamepads, padIndex) IN
       /\ gamepad' = g
       /\ IF g # Null
          THEN IF g = Undefined
               THEN triggersAreAxes' = triggersAreAxes /\ pollAlive' = FALSE
               ELSE /\ triggersAreAxes' = (IF HasAxis(g, 4) THEN "true" ELSE "false")
                    /\ pollAlive' = TRUE
          ELSE triggersAreAxes' = triggersAreAxes /\ pollAlive' = TRUE
    /\ result' = Event
    /\ UNCHANGED <<configVars, hostVars, keyVars, registryVars, obs>>

\* One run of pollInput.  Reading .axes of undefined throws before the callback
\* schedules itself again.
PollInput ==
    /\ pollAlive
    /\ LET g == Polled(GetGamepads, padIndex) IN
       /\ gamepad' = g
       /\ IF g # Null /\ triggersAreAxes = "undefined"
          THEN IF g = Undefined
               THEN triggersAreAxes' = triggersAreAxes /\ pollAlive' = FALSE
               ELSE /\ triggersAreAxes' = (IF HasAxis(g, 4) THEN "true" ELSE "false")
                    /\ pollAlive' = TRUE
          ELSE triggersAreAxes' = triggersAreAxes /\ pollAlive' = TRUE
    /\ result' = Event
    /\ UNCHANGED <<configVars, hostVars, keyVars, registryVars, obs>>

(***************************************************************************)
(* InputManager: the canvas listeners.                                     *)
(***************************************************************************)
KeyDown(code) ==
    /\ keyStates' = Assign(keyStates, KeyEventNames(code), TRUE)
    /\ heldKeys' = heldKeys \cup {code}
    /\ result' = Event
    /\ UNCHANGED <<configVars, hostVars, managerVars, heldMouse, registryVars, obs>>

KeyUp(code) ==
    /\ keyStates' = Assign(keyStates, KeyEventNames(code), FALSE)
    /\ heldKeys' = heldKeys \ {code}
    /\ obs' = ObsRelease(obs, keyStates', pads)
    /\ result' = Event
    /\ UNCHANGED <<configVars, hostVars, managerVars, heldMouse, registryVars>>

MouseDown(button) ==
    /\ keyStates' = Assign(keyStates, MouseEventNames(button), TRUE)
    /\ heldMouse' = heldMouse \cup {button}
    /\ result' = Event
    /\ UNCHANGED <<configVars, hostVars, managerVars, heldKeys, registryVars, obs>>

MouseUp(button) ==
    /\ keyStates' = Assign(keyStates, MouseEventNames(button), FALSE)
    /\ heldMouse' = heldMouse \ {button}
    /\ obs' = ObsRelease(obs, keyStates', pads)
    /\ result' = Event
    /\ UNCHANGED <<configVars, hostVars, managerVars, heldKeys, registryVars>>

(***************************************************************************)
(* InputManager: updateCallback, addAction, isActive.                      *)
(***************************************************************************)
\* The clock differences the model lets pass between two frames: 0.016 and 16.
DtSet == {16, 16000}

Tick(dt) ==
    /\ tickAlive
    /\ LET r == updateAll(actions, <<>>, 1, dt) IN
       /\ actions' = r.acts
       /\ tickAlive' = ~r.threw
       /\ result' = [op |-> "tick", raw |-> r.raw, threw |-> r.threw]
       /\ obs' = ObsTick(obs, dt, r)
    /\ UNCHANGED <<configVars, hostVars, managerVars, keyVars, order>>

\* result.replaced: the name was registered when the call came; result.busy: and its
\* action was active, latched or buffered
AddAction(call) ==
    LET keys == Arg(call, "keys", <<>>)
        buttons == Arg(call, "buttons", <<>>)
        type == Arg(call, "type", "hold")
        replaced == call.name \in DOMAIN actions
        busy == /\ replaced
                /\ \/ actions[call.name].active
                   \/ actions[call.name].wasActive
                   \/ actions[call.name].bufferDuration # 0
    IN  IF addActionRejects(keys, buttons)
        THEN /\ result' = [op |-> "addAction", call |-> call,
                           err |-> "InvalidArgumentError",
                           replaced |-> replaced, busy |-> busy]
             /\ UNCHANGED <<configVars, hostVars, managerVars, keyVars, registryVars,
                            obs>>
        ELSE /\ actions' = [n \in DOMAIN actions \cup {call.name} |->
                               IF n = call.name THEN newAction(keys, buttons, type)
                               ELSE actions[n]]
             /\ order' = IF call.name \in DOMAIN actions THEN order
                         ELSE Append(order, call.name)
             /\ result' = [op |-> "addAction", call |-> call, err |-> "none",
                           replaced |-> replaced, busy |-> busy]
             /\ obs' = ObsAddAction(obs, call.name)
             /\ UNCHANGED <<configVars, hostVars, managerVars, keyVars, tickAlive>>

\* an isActive that also clears the action's wasActive flag
IsActiveClearsLatch(name) ==
    IF hasAction(actions, name)
    THEN /\ actions' = [actions EXCEPT ![name].bufferDuration = 0,
                                       ![name].wasActive = FALSE]
         /\ result' = [op |-> "isActive", name |-> name, err |-> "none",
                       val |-> isActiveValue(actions[name]),
                       buffered |-> actions[name].bufferDuration > 0,
                       second |-> /\ result.op = "isActive"
                                  /\ result.name = name
                                  /\ result.err = "none"
                                  /\ result.buffered
                                  /\ result.val]
         /\ obs' = ObsIsActive(obs, name)
         /\ UNCHANGED <<configVars, hostVars, managerVars, keyVars, order, tickAlive>>
    ELSE /\ result' = [op |-> "isActive", name |-> name,
                       err |-> notFound(name).err, val |-> notFound(name).val,
                       buffered |-> FALSE, second |-> FALSE]
         /\ UNCHANGED <<configVars, hostVars, managerVars, keyVars, registryVars, obs>>

\* result.buffered: the action's buffer was above 0 when the call came;
\* result.second: the operation before this call was isActive of the same name, and
\* it found a buffer above 0 and returned true
IsActive(name) ==
    IF hasAction(actions, name)
    THEN /\ actions' = [actions EXCEPT ![name].bufferDuration = 0]
         /\ result' = [op |-> "isActive", name |-> name, err |-> "none",
                       val |-> isActiveValue(actions[name]),
                       buffered |-> actions[name].bufferDuration > 0,
                       second |-> /\ result.op = "isActive"
                                  /\ result.name = name
                                  /\ result.err = "none"
                                  /\ result.buffered
                                  /\ result.val]
         /\ obs' = ObsIsActive(obs, name)
         /\ UNCHANGED <<configVars, hostVars, managerVars, keyVars, order, tickAlive>>
    ELSE /\ result' = [op |-> "isActive", name |-> name,
                       err |-> notFound(name).err, val |-> notFound(name).val,
                       buffered |-> FALSE, second |-> FALSE]
         /\ UNCHANGED <<configVars, hostVars, managerVars, keyVars, registryVars, obs>>

(***************************************************************************)
(* The calls the application makes.                                        *)
(***************************************************************************)
HoldCall ==
    [name |-> "hold action", given |-> {"keys", "buttons"},
     keys |-> <<"Shift">>, buttons |-> <<Str("right stick click")>>, type |-> "hold"]

PressCall ==
    [name |-> "press action", given |-> {"keys", "buttons", "type"},
     keys |-> <<"left mouse">>, buttons |-> <<Str("right stick click")>>,
     type |-> "press"]

\* calls with no trigger at all: one for a registered name, one for a new name
EmptyCalls ==
    { [name |-> "press action", given |-> {"type"},
       keys |-> <<>>, buttons |-> <<>>, type |-> "press"],
      [name |-> "empty action", given |-> {"keys", "buttons"},
       keys |-> <<>>, buttons |-> <<>>, type |-> "hold"] }

AddCalls == {HoldCall, PressCall} \cup EmptyCalls

QueryNames == {"hold action", "press action", "Press Action"}

KeyCodes == {"ShiftLeft"}
MouseButtons == {0}
DeviceButtons == {11}

(***************************************************************************)
(* Spec: the system of main.ts, a GamepadManager that takes any pad and an *)
(* InputManager built with it or without one.                              *)
(***************************************************************************)
InitDevices ==
    [i \in Slots |-> [axesMode |-> (i = 0), pressed |-> {}, pull |-> 0, stick |-> 0]]

InitState ==
    /\ pads = InitDevices
    /\ plugged = {}
    /\ gamepad = Null
    /\ triggersAreAxes = "undefined"
    /\ heldKeys = {}
    /\ heldMouse = {}
    /\ keyStates = {}
    /\ actions = <<>>
    /\ order = <<>>
    /\ tickAlive = TRUE
    /\ result = [op |-> "init"]

Init ==
    /\ padIndex = -1
    /\ hasGamepad \in BOOLEAN
    /\ hostShort = FALSE
    /\ innerDeadzone = InnerDeadzone
    /\ outerDeadzone = OuterDeadzone
    /\ bufferDuration = DefaultBufferDuration
    /\ pollAlive = hasGamepad
    /\ obs = ObsOff
    /\ InitState

Next ==
    \/ hasGamepad /\ HostPlug(0)
    \/ hasGamepad /\ HostUnplug(0)
    \/ hasGamepad /\ \E b \in DeviceButtons : HostPress(0, b)
    \/ hasGamepad /\ \E b \in DeviceButtons : HostRelease(0, b)
    \/ PollInput
    \/ \E c \in KeyCodes : KeyDown(c)
    \/ \E c \in KeyCodes : KeyUp(c)
    \/ \E b \in MouseButtons : MouseDown(b)
    \/ \E b \in MouseButtons : MouseUp(b)
    \/ \E dt \in DtSet : Tick(dt)
    \/ \E call \in AddCalls : AddAction(call)
    \/ \E name \in QueryNames : IsActive(name)

Spec == Init /\ [][Next]_vars

(***************************************************************************)
(* PressSpec: one press action, the mouse and one pad, with the history    *)
(* observers running.                                                      *)
(***************************************************************************)
PressInit ==
    /\ padIndex = -1
    /\ hasGamepad = TRUE
    /\ hostShort = FALSE
    /\ innerDeadzone = InnerDeadzone
    /\ outerDeadzone = OuterDeadzone
    /\ bufferDuration = DefaultBufferDuration
    /\ pollAlive = TRUE
    /\ obs = ObsInit
    /\ InitState

PressNext ==
    \/ HostPlug(0)
    \/ HostUnplug(0)
    \/ \E b \in DeviceButtons : HostPress(0, b)
    \/ \E b \in DeviceButtons : HostRelease(0, b)
    \/ PollInput
    \/ \E b \in MouseButtons : MouseDown(b)
    \/ \E b \in MouseButtons : MouseUp(b)
    \/ \E dt \in DtSet : Tick(dt)
    \/ AddAction(PressCall)
    \/ IsActive(Watched)

PressSpec == PressInit /\ [][PressNext]_vars

(***************************************************************************)
(* KeySpec: an InputManager without a gamepad, the six modifier keys, and  *)
(* actions registered with the modifiers' short names.                     *)
(***************************************************************************)
ModifierCodes ==
    {"ShiftLeft", "ShiftRight", "AltLeft", "AltRight", "ControlLeft", "ControlRight"}

ShiftCall ==
    [name |-> "shift action", given |-> {"keys"},
     keys |-> <<"SHIFT">>, buttons |-> <<>>, type |-> "hold"]

AltControlCall ==
    [name |-> "alt or control action", given |-> {"keys", "type"},
     keys |-> <<"Alt", "control">>, buttons |-> <<>>, type |-> "hold"]

KeyInit ==
    /\ padIndex = -1
    /\ hasGamepad = FALSE
    /\ hostShort = FALSE
    /\ innerDeadzone = InnerDeadzone
    /\ outerDeadzone = OuterDeadzone
    /\ bufferDuration = DefaultBufferDuration
    /\ pollAlive = FALSE
    /\ obs = ObsOff
    /\ InitState

KeyNext ==
    \/ \E c \in ModifierCodes : KeyDown(c)
    \/ \E c \in ModifierCodes : KeyUp(c)
    \/ \E dt \in DtSet : Tick(dt)
    \/ AddAction(ShiftCall)
    \/ AddAction(AltControlCall)
    \/ \E name \in {ShiftCall.name} : IsActive(name)

KeySpec == KeyInit /\ [][KeyNext]_vars

(***************************************************************************)
(* PadSpec: a GamepadManager alone, for one pad index or for any pad, on a *)
(* host that lists its pads in a fixed array or in one without trailing    *)
(* empty slots.                                                            *)
(***************************************************************************)
PadIndexes == {-1, 0, 1}
Pulls == {0, AxisScale}

PadInit ==
    /\ padIndex \in PadIndexes
    /\ hasGamepad = FALSE
    /\ hostShort \in BOOLEAN
    /\ innerDeadzone = InnerDeadzone
    /\ outerDeadzone = OuterDeadzone
    /\ bufferDuration = DefaultBufferDuration
    /\ pollAlive = TRUE
    /\ obs = ObsOff
    /\ InitState

PadNext ==
    \/ \E i \in Slots : HostPlug(i)
    \/ \E i \in Slots : HostUnplug(i)
    \/ \E i \in Slots, b \in DeviceButtons : HostPress(i, b)
    \/ \E i \in Slots, b \in DeviceButtons : HostRelease(i, b)
    \/ \E i \in Slots, v \in Pulls : HostPull(i, v)
    \/ PollInput

PadSpec == PadInit /\ [][PadNext]_vars

(***************************************************************************)
(* The claims.                                                             *)
(***************************************************************************)
IsPress(n) == n \in DOMAIN actions /\ actions[n].type = "press"
IsHold(n) == n \in DOMAIN actions /\ actions[n].type = "hold"
AfterTick == result.op = "tick"

\* some trigger key name of the action is down in keyStates
SomeKeyDown(a) == \E i \in 1..Len(a.keys) : a.keys[i] \in keyStates
\* a gamepad manager is attached and connected and holds some trigger button pressed
SomePadButtonDown(a) ==
    /\ hasGamepad
    /\ gamepad # Null
    /\ \E i \in 1..Len(a.buttons) :
           buttonPressed(gamepad, triggersAreAxes, a.buttons[i]) = Ok(TRUE)

\* C1: after every tick, every HOLD action's active flag equals the rawPressed value
\* of that tick, which is true iff one of its trigger keys is down in keyStates or
\* the attached, connected gamepad reports one of its trigger buttons pressed.
C1_HoldTracksRawPressed ==
    AfterTick =>
        \A n \in DOMAIN actions :
            IsHold(n) =>
                /\ n \in DOMAIN result.raw
                /\ actions[n].active = result.raw[n]
                /\ result.raw[n] = (SomeKeyDown(actions[n]) \/ SomePadButtonDown(actions[n]))

\* a tick has left a hold action active through the gamepad alone
C1_Witness ==
    /\ AfterTick
    /\ \E n \in DOMAIN actions :
           IsHold(n) /\ actions[n].active /\ ~SomeKeyDown(actions[n])

\* a tick has switched a hold action off
C1_WitnessOff ==
    /\ AfterTick
    /\ \E n \in DOMAIN actions : IsHold(n) /\ ~actions[n].active /\ heldKeys = {}

\* C2 (as stated): a press held from the fresh state for 5 ticks of dt = 0.016
\* with no isActive call is active after ticks 1 and 2 and inactive after ticks 3,
\* 4 and 5.
C2_ActiveTwoTicks ==
    (obs.on /\ IsPress(Watched)) =>
        /\ obs.run \in {1, 2} => actions[Watched].active
        /\ obs.run \in {3, 4, 5} => ~actions[Watched].active

\* C2 (amended): it is active after ticks 1, 2 and 3 and inactive after ticks 4
\* and 5.
C2_ActiveThreeTicks ==
    (obs.on /\ IsPress(Watched)) =>
        /\ obs.run \in {1, 2, 3} => actions[Watched].active
        /\ obs.run \in {4, 5} => ~actions[Watched].active

\* the fifth tick of such a press has run
C2_Witness == obs.on /\ IsPress(Watched) /\ obs.run = 5

\* C3: once a press action has reported active = false while held, it does not
\* report active = true again before every trigger input that was down at that tick
\* (a key down in keyStates, a pad button the manager saw pressed) has been released.
C3_NoRefireBeforeRelease ==
    (obs.on /\ obs.latched /\ IsPress(Watched) /\ actions[Watched].active) =>
        (obs.unreleasedKeys = {} /\ obs.unreleasedButtons = {})

C5_OneTruePerPress ==
    (obs.on /\ IsPress(Watched) /\ ~obs.multi) => obs.trues <= 1

\* C6: after a tick that saw the action released, a press gives tick for tick the
\* active values the same press gives from the fresh state.
C6_PressRestartsIdentically ==
    (obs.on /\ IsPress(Watched)) => actions[Watched].active = obs.shadow.active

\* the call names no trigger: keys and buttons are empty or left out
NoTriggers(call) ==
    /\ ("keys" \notin call.given \/ call.keys = <<>>)
    /\ ("buttons" \notin call.given \/ call.buttons = <<>>)

\* C7: addAction with no trigger fails with InvalidArgumentError and leaves the
\* registry as it was.
C7_EmptyActionRejected ==
    [][(result'.op = "addAction" /\ NoTriggers(result'.call)) =>
          /\ result'.err = "InvalidArgumentError"
          /\ actions' = actions
          /\ order' = order]_vars

\* addAction with no trigger was called for a registered name whose action is in
\* the middle of a press
C7_Witness ==
    /\ result.op = "addAction"
    /\ NoTriggers(result.call)
    /\ IsPress(result.call.name)
    /\ actions[result.call.name].active
    /\ actions[result.call.name].bufferDuration > 0

\* C8: isActive of a name that is not registered fails with an error and changes
\* no action.
C8_UnknownNameFails ==
    [][(result'.op = "isActive" /\ result'.name \notin DOMAIN actions) =>
          /\ result'.err = "InvalidArgumentError"
          /\ actions' = actions]_vars

\* isActive("Press Action") was called while "press action" is registered
C8_Witness ==
    /\ result.op = "isActive"
    /\ result.name = "Press Action"
    /\ "press action" \in DOMAIN actions
    /\ result.err = "InvalidArgumentError"

Shifts == {"ShiftLeft", "ShiftRight"}
AltsAndControls == {"AltLeft", "AltRight", "ControlLeft", "ControlRight"}

\* C9: after a tick, an action registered with "shift" (resp. "alt", "control", in
\* any letter case) has rawPressed true whenever either side of the key is down.
C9_EitherSideSatisfies ==
    AfterTick =>
        /\ (ShiftCall.name \in DOMAIN actions /\ heldKeys \cap Shifts # {}) =>
               result.raw[ShiftCall.name]
        /\ (AltControlCall.name \in DOMAIN actions
               /\ heldKeys \cap AltsAndControls # {}) =>
               result.raw[AltControlCall.name]

\* a tick has run with the right shift key alone down
C9_Witness ==
    /\ AfterTick
    /\ ShiftCall.name \in DOMAIN actions
    /\ heldKeys = {"ShiftRight"}
    /\ actions[ShiftCall.name].active

\* C10: while the manager holds no snapshot, buttonPressed is false, axisValue is 0
\* and stickPos is the zero vector, and none of them throws.
C10_NeutralWithoutSnapshot ==
    gamepad.tag # "pad" =>
        /\ \A b \in GamepadButtons :
               buttonPressed(gamepad, triggersAreAxes, b) = Ok(FALSE)
        /\ \A a \in GamepadAxes, raw \in BOOLEAN :
               axisValue(gamepad, triggersAreAxes, a, raw) = Ok(Zero)
        /\ \A st \in Thumbsticks, raw \in BOOLEAN :
               stickPos(gamepad, triggersAreAxes, st, raw) = Ok(<<Zero, Zero>>)

(***************************************************************************)
(* LoopSpec: both per-frame loops, a GamepadManager for any pad or for pad *)
(* 0 on either kind of host, and actions whose buttons are given by name.  *)
(***************************************************************************)
\* a successful registration whose button name is no key of GAMEPAD_BUTTON_LOOKUP
TypoCall ==
    [name |-> "typo action", given |-> {"buttons"},
     keys |-> <<>>, buttons |-> <<Str("start")>>, type |-> "hold"]

LoopInit ==
    /\ padIndex \in {-1, 0}
    /\ hasGamepad = TRUE
    /\ hostShort \in BOOLEAN
    /\ innerDeadzone = InnerDeadzone
    /\ outerDeadzone = OuterDeadzone
    /\ bufferDuration = DefaultBufferDuration
    /\ pollAlive = TRUE
    /\ obs = ObsOff
    /\ InitState

LoopNext ==
    \/ HostPlug(0)
    \/ HostUnplug(0)
    \/ \E b \in DeviceButtons : HostPress(0, b)
    \/ \E b \in DeviceButtons : HostRelease(0, b)
    \/ PollInput
    \/ \E dt \in DtSet : Tick(dt)
    \/ \E call \in {PressCall, TypoCall} : AddAction(call)

LoopSpec == LoopInit /\ [][LoopNext]_vars

\* C11: every run of pollInput and of updateCallback completes without raising and
\* schedules its next run, so both loops stay scheduled for ever.
C11_LoopsNeverHalt == pollAlive /\ tickAlive

\* the pull of the left trigger a snapshot encodes is the full pull: reading 1 on
\* axis 4 of a pad that reports its triggers as axes, value 1 of button 6 otherwise
EncodesFullPull(g) ==
    IF HasAxis(g, AXIS_LEFT_TRIGGER) THEN g.axes[AXIS_LEFT_TRIGGER + 1] = AxisScale
    ELSE g.value6 = AxisScale

One == Frac(1, 1)

\* C12: for a connected pad the full-pull pseudo-buttons are pressed iff axisValue
\* of the trigger is exactly 1, and the left one is pressed iff the snapshot encodes
\* a full pull, whichever way the pad reports its triggers.
C12_FullPullIffAxisIsOne ==
    gamepad.tag = "pad" =>
        /\ axisValue(gamepad, triggersAreAxes, AXIS_LEFT_TRIGGER, FALSE).err = "none"
        /\ axisValue(gamepad, triggersAreAxes, AXIS_RIGHT_TRIGGER, FALSE).err = "none"
        /\ buttonPressed(gamepad, triggersAreAxes, LEFT_TRIGGER_FULL_PULL) =
               Ok(FracEq(axisValue(gamepad, triggersAreAxes, AXIS_LEFT_TRIGGER,
                                   FALSE).val, One))
        /\ buttonPressed(gamepad, triggersAreAxes, RIGHT_TRIGGER_FULL_PULL) =
               Ok(FracEq(axisValue(gamepad, triggersAreAxes, AXIS_RIGHT_TRIGGER,
                                   FALSE).val, One))
        /\ buttonPressed(gamepad, triggersAreAxes, LEFT_TRIGGER_FULL_PULL) =
               Ok(EncodesFullPull(gamepad))

\* C13: once the trigger-mode flag is determined, no later step changes it.
C13_TriggerModeImmutable ==
    [][triggersAreAxes # "undefined" => triggersAreAxes' = triggersAreAxes]_vars

\* the manager holds a pad that reports its triggers the other way than the flag says
C13_Witness ==
    /\ gamepad.tag = "pad"
    /\ \/ triggersAreAxes = "true" /\ ~HasAxis(gamepad, AXIS_LEFT_TRIGGER)
       \/ triggersAreAxes = "false" /\ HasAxis(gamepad, AXIS_LEFT_TRIGGER)

\* no pad is present that pollInput could pick: none at all for a manager that takes
\* any pad, none in its slot for a manager of one index
TrackedAbsent == IF padIndex = -1 THEN plugged = {} ELSE padIndex \notin plugged

\* every query on the snapshot g returns its neutral value
NeutralQueries(g, tAxes) ==
    /\ \A b \in GamepadButtons : buttonPressed(g, tAxes, b) = Ok(FALSE)
    /\ \A a \in GamepadAxes : axisValue(g, tAxes, a, FALSE) = Ok(Zero)
    /\ \A st \in Thumbsticks : stickPos(g, tAxes, st, FALSE) = Ok(<<Zero, Zero>>)

\* C14: a poll by a manager that held a pad leaves connected true exactly when it
\* holds a snapshot of a pad again; when it no longer finds a pad, connected is
\* false and every query is neutral.
C14_DisconnectedWhenPadGone ==
    [][(PollInput /\ gamepad.tag = "pad") =>
          /\ connected(gamepad') <=> (gamepad'.tag = "pad")
          /\ TrackedAbsent =>
                 /\ ~connected(gamepad')
                 /\ NeutralQueries(gamepad', triggersAreAxes')]_vars

(***************************************************************************)
(* DeadzoneSpec: applyDeadzone called with every reading between -1 and 1  *)
(* and every pair of deadzones in [0, 1) on the grid of 1/AxisScale.       *)
(***************************************************************************)
Readings == (-AxisScale)..AxisScale
Deadzones == 0..(AxisScale - 1)

\* the call to make: a reading and the two deadzones
DeadzoneCalls ==
    [op : {"call applyDeadzone"}, value : Readings, inner : Deadzones,
     outer : Deadzones]

ApplyDeadzone ==
    /\ result.op = "call applyDeadzone"
    /\ result' = [op |-> "applyDeadzone", value |-> result.value,
                  inner |-> result.inner, outer |-> result.outer,
                  out |-> applyDeadzone(result.value, result.inner, result.outer)]
    /\ UNCHANGED <<configVars, hostVars, managerVars, keyVars, registryVars, obs>>

DeadzoneInit ==
    /\ padIndex = -1
    /\ hasGamepad = FALSE
    /\ hostShort = FALSE
    /\ innerDeadzone = InnerDeadzone
    /\ outerDeadzone = OuterDeadzone
    /\ bufferDuration = DefaultBufferDuration
    /\ pollAlive = TRUE
    /\ obs = ObsOff
    /\ pads = InitDevices
    /\ plugged = {}
    /\ gamepad = Null
    /\ triggersAreAxes = "undefined"
    /\ heldKeys = {}
    /\ heldMouse = {}
    /\ keyStates = {}
    /\ actions = <<>>
    /\ order = <<>>
    /\ tickAlive = TRUE
    /\ result \in DeadzoneCalls

DeadzoneNext == ApplyDeadzone

DeadzoneSpec == DeadzoneInit /\ [][DeadzoneNext]_vars

\* the configurations the claims speak of: inner < 1 - outer
ValidDeadzone(inner, outer) == inner < AxisScale - outer
AfterDeadzone == result.op = "applyDeadzone"
Sign(v) == IF v < 0 THEN -1 ELSE IF v > 0 THEN 1 ELSE 0

\* the reference function: 0 below inner, sign(v) above 1 - outer, and
\* sign(v) * (|v| - inner) / ((1 - outer) - inner) between
Reference(v, inner, outer) ==
    IF Abs(v) < inner THEN Zero
    ELSE IF Abs(v) > AxisScale - outer THEN Frac(Sign(v), 1)
    ELSE Frac(Sign(v) * (Abs(v) - inner), (AxisScale - outer) - inner)

\* C15: for every reading and every configuration with inner < 1 - outer,
\* applyDeadzone returns the value of the reference function; in particular
\* applyDeadzone(0, i, o) = 0 and applyDeadzone(1, 0, 0) = 1.
C15_DeadzoneIsReference ==
    (AfterDeadzone /\ ValidDeadzone(result.inner, result.outer)) =>
        /\ FracEq(result.out, Reference(result.value, result.inner, result.outer))
        /\ result.value = 0 => FracEq(result.out, Zero)
        /\ (result.value = AxisScale /\ result.inner = 0 /\ result.outer = 0) =>
               FracEq(result.out, One)

\* a negative reading between the two deadzones was mapped to a value strictly
\* between -1 and 0
C15_Witness ==
    /\ AfterDeadzone
    /\ ValidDeadzone(result.inner, result.outer)
    /\ result.inner > 0 /\ result.outer > 0
    /\ result.value < 0
    /\ IsNumber(result.out)
    /\ result.out.n < 0
    /\ -result.out.n < result.out.d

\* comparisons of fractions with positive denominators
Magnitude(q) == Frac(Abs(q.n), q.d)
Negated(q) == Frac(-q.n, q.d)
FracLeq(p, q) == IsNumber(p) /\ IsNumber(q) /\ p.n * q.d <= q.n * p.d
FracSum(p, q) == Frac(p.n * q.d + q.n * p.d, p.d * q.d)

\* C16: for a configuration with inner < 1 - outer the magnitude of applyDeadzone
\* lies in [0, 1] and does not decrease as |v| grows; it is 0 at |v| = inner and 1
\* at |v| = 1 - outer, and from one reading of the grid to the next it grows by no
\* more than the slope of the linear part allows; and applyDeadzone(-v) =
\* -applyDeadzone(v).
C16_DeadzoneMonotoneOdd ==
    (AfterDeadzone /\ ValidDeadzone(result.inner, result.outer)) =>
        LET f(w) == applyDeadzone(w, result.inner, result.outer)
            v == result.value
            edge == AxisScale - result.outer
        IN  /\ result.out.d > 0
            /\ FracLeq(Zero, Magnitude(result.out))
            /\ FracLeq(Magnitude(result.out), One)
            /\ \A w \in Readings :
                   Abs(w) >= Abs(v) => FracLeq(Magnitude(result.out), Magnitude(f(w)))
            /\ Abs(v) = result.inner => FracEq(result.out, Zero)
            /\ Abs(v) = edge => FracEq(Magnitude(result.out), One)
            /\ \A w \in Readings :
                   Abs(w) = Abs(v) + 1 =>
                       FracLeq(Magnitude(f(w)),
                               FracSum(Magnitude(result.out),
                                       Frac(1, edge - result.inner)))
            /\ FracEq(f(-v), Negated(result.out))

\* a negative reading exactly at the outer threshold was mapped
C16_Witness ==
    /\ AfterDeadzone
    /\ ValidDeadzone(result.inner, result.outer)
    /\ result.inner > 0 /\ result.outer > 0
    /\ result.value = -(AxisScale - result.outer)
    /\ FracEq(result.out, Frac(-1, 1))

(***************************************************************************)
(* AxisSpec: axisValue called on a manager that holds the snapshot of a    *)
(* pad, for every axis, both values of rawValue, several deadzone          *)
(* configurations and either value of the trigger-mode flag.               *)
(***************************************************************************)
InnerChoices == {0, InnerDeadzone, 6}
OuterChoices == {0, OuterDeadzone, 4}
StickReadings == {-AxisScale, 1 - AxisScale, -10, -2, -1, 0, 1, 2, 10, AxisScale - 1,
                  AxisScale}
TriggerPulls == {0, 10, AxisScale}

AxisCalls == [op : {"call axisValue"}, axis : GamepadAxes, rawValue : BOOLEAN]

AxisValue ==
    /\ result.op = "call axisValue"
    /\ result' = [op |-> "axisValue", axis |-> result.axis,
                  rawValue |-> result.rawValue,
                  out |-> axisValue(gamepad, triggersAreAxes, result.axis,
                                    result.rawValue)]
    /\ UNCHANGED <<configVars, hostVars, managerVars, keyVars, registryVars, obs>>

AxisInit ==
    /\ padIndex = -1
    /\ hasGamepad = FALSE
    /\ hostShort = FALSE
    /\ innerDeadzone \in InnerChoices
    /\ outerDeadzone \in OuterChoices
    /\ bufferDuration = DefaultBufferDuration
    /\ \E axesMode \in BOOLEAN, pull \in TriggerPulls, stick \in StickReadings :
           pads = [InitDevices EXCEPT ![0] = [axesMode |-> axesMode, pressed |-> {},
                                              pull |-> pull, stick |-> stick]]
    /\ plugged = {0}
    /\ gamepad = Snapshot(pads[0])
    /\ triggersAreAxes \in {"true", "false"}
    /\ pollAlive = TRUE
    /\ heldKeys = {}
    /\ heldMouse = {}
    /\ keyStates = {}
    /\ actions = <<>>
    /\ order = <<>>
    /\ tickAlive = TRUE
    /\ obs = ObsOff
    /\ result \in AxisCalls

AxisNext == AxisValue

AxisSpec == AxisInit /\ [][AxisNext]_vars

TriggerAxes == {AXIS_LEFT_TRIGGER, AXIS_RIGHT_TRIGGER}
InUnitRange(q) == FracLeq(Zero, q) /\ FracLeq(q, One)

\* C17: for a trigger axis axisValue gives the same outcome with rawValue true and
\* false; it is (raw + 1) / 2 of the axis reading when the flag says axes and the
\* button's analog value otherwise, and lies in [0, 1] for a reading that is
\* there.  For a stick axis it is the raw reading when rawValue is true, and
\* applyDeadzone of it with the manager's innerDeadzone and outerDeadzone when not.
C17_TriggersNeverDeadzoned ==
    result.op = "axisValue" =>
        LET a == result.axis
            out == result.out
        IN  /\ out.err = "none"
            /\ a \in TriggerAxes =>
                   /\ out = axisValue(gamepad, triggersAreAxes, a, ~result.rawValue)
                   /\ (triggersAreAxes = "true" /\ HasAxis(gamepad, a)) =>
                          /\ FracEq(out.val,
                                    Frac(gamepad.axes[a + 1] + AxisScale, 2 * AxisScale))
                          /\ InUnitRange(out.val)
                   /\ triggersAreAxes # "true" =>
                          /\ FracEq(out.val,
                                    Frac(IF a = AXIS_LEFT_TRIGGER THEN gamepad.value6
                                         ELSE gamepad.value7, AxisScale))
                          /\ InUnitRange(out.val)
            /\ a \notin TriggerAxes =>
                   /\ result.rawValue =>
                          FracEq(out.val, Frac(gamepad.axes[a + 1], AxisScale))
                   /\ ~result.rawValue =>
                          out.val = applyDeadzone(gamepad.axes[a + 1], innerDeadzone,
                                                  outerDeadzone)

\* the left trigger, half pulled on a pad that reports it as an axis, was read
\* without rawValue by a manager with both deadzones above 0
C17_Witness ==
    /\ result.op = "axisValue"
    /\ result.axis = AXIS_LEFT_TRIGGER
    /\ ~result.rawValue
    /\ triggersAreAxes = "true"
    /\ HasAxis(gamepad, AXIS_LEFT_TRIGGER)
    /\ innerDeadzone > 0 /\ outerDeadzone > 0
    /\ FracEq(result.out.val, Frac(1, 2))

\* C18: a tick changes neither keyStates nor the gamepad snapshot, and the
\* rawPressed it computes for each action is the value computed from the inputs as
\* they were before the first action was updated.
C18_TickReadsOneSnapshot ==
    [][result'.op = "tick" =>
          /\ keyStates' = keyStates
          /\ gamepad' = gamepad
          /\ triggersAreAxes' = triggersAreAxes
          /\ DOMAIN result'.raw = DOMAIN actions
          /\ \A n \in DOMAIN actions :
                 Ok(result'.raw[n]) =
                     actionPressed(actions[n], keyStates, hasGamepad, gamepad,
                                   triggersAreAxes)]_vars

\* a tick has updated two actions and found both pressed through their keys; the
\* first one it updated is active
C18_Witness ==
    /\ AfterTick
    /\ Len(order) = 2
    /\ \A n \in DOMAIN actions : result.raw[n] /\ SomeKeyDown(actions[n])
    /\ actions[order[1]].active

\* C19: a successful addAction leaves the action of that name inactive, unlatched
\* and with no buffer, with the triggers and mode of the call, and leaves every
\* other action as it was; and no step but a tick turns an action active, so
\* isActive of the name returns false until the next tick.
C19_AddActionReplaces ==
    [][/\ (result'.op = "addAction" /\ result'.err = "none") =>
              LET call == result'.call
                  a == actions'[call.name]
              IN  /\ DOMAIN actions' = DOMAIN actions \cup {call.name}
                  /\ ~a.active /\ ~a.wasActive /\ a.bufferDuration = 0
                  /\ isActiveValue(a) = FALSE
                  /\ a.keys = expandKeys(Arg(call, "keys", <<>>), 1)
                  /\ a.buttons = mapButtons(Arg(call, "buttons", <<>>))
                  /\ a.type = Arg(call, "type", "hold")
                  /\ \A n \in DOMAIN actions : n # call.name => actions'[n] = actions[n]
       /\ result'.op # "tick" =>
              \A n \in DOMAIN actions' :
                  actions'[n].active => (n \in DOMAIN actions /\ actions[n].active)]_vars

\* addAction has replaced an action that was active, latched or buffered, while
\* another action is active
C19_Witness ==
    /\ result.op = "addAction"
    /\ result.err = "none"
    /\ result.replaced
    /\ result.busy
    /\ \E n \in DOMAIN actions : n # result.call.name /\ actions[n].active

(***************************************************************************)
(* LiveSpec: one press action on the mouse, with updateCallback run again  *)
(* and again by requestAnimationFrame.                                     *)
(***************************************************************************)
LiveInit ==
    /\ padIndex = -1
    /\ hasGamepad = FALSE
    /\ hostShort = FALSE
    /\ innerDeadzone = InnerDeadzone
    /\ outerDeadzone = OuterDeadzone
    /\ bufferDuration = DefaultBufferDuration
    /\ pollAlive = FALSE
    /\ obs = ObsFrames
    /\ InitState

\* setup registers the action once; a button goes down when it is up and up when
\* it is down
LiveNext ==
    \/ \E b \in MouseButtons : b \notin heldMouse /\ MouseDown(b)
    \/ \E b \in MouseButtons : b \in heldMouse /\ MouseUp(b)
    \/ \E dt \in DtSet : Tick(dt)
    \/ Watched \notin DOMAIN actions /\ AddAction(PressCall)
    \/ IsActive(Watched)

LiveSpec == LiveInit /\ [][LiveNext]_vars /\ WF_vars(\E dt \in DtSet : Tick(dt))

\* a mouse-down event has just arrived for the press action, which is released
PressArrived ==
    /\ result = Event
    /\ heldMouse # {}
    /\ IsPress(Watched)
    /\ SomeKeyDown(actions[Watched])
    /\ ~actions[Watched].active
    /\ ~actions[Watched].wasActive

\* C20: every press of a trigger of a press action that arrives while the action
\* is released is followed, sooner or later, by a tick that leaves the action
\* active.
C20_EveryPressFires ==
    PressArrived ~> (AfterTick /\ IsPress(Watched) /\ actions[Watched].active)

(***************************************************************************)
(* RawSpec: an InputManager with or without a GamepadManager (for any pad  *)
(* or for pad 0), one action with a key and a button and one with a button *)
(* alone.                                                                  *)
(***************************************************************************)
\* an action whose only trigger is a gamepad button, given as a GamepadButton
ButtonCall ==
    [name |-> "button action", given |-> {"buttons"},
     keys |-> <<>>, buttons |-> <<Btn(11)>>, type |-> "hold"]

RawInit ==
    /\ padIndex \in {-1, 0}
    /\ hasGamepad \in BOOLEAN
    /\ hostShort = FALSE
    /\ innerDeadzone = InnerDeadzone
    /\ outerDeadzone = OuterDeadzone
    /\ bufferDuration = DefaultBufferDuration
    /\ pollAlive = hasGamepad
    /\ obs = ObsOff
    /\ InitState

RawNext ==
    \/ HostPlug(0)
    \/ HostUnplug(0)
    \/ \E b \in DeviceButtons : HostPress(0, b)
    \/ \E b \in DeviceButtons : HostRelease(0, b)
    \/ PollInput
    \/ \E b \in MouseButtons : MouseDown(b)
    \/ \E b \in MouseButtons : MouseUp(b)
    \/ \E dt \in DtSet : Tick(dt)
    \/ \E call \in {PressCall, ButtonCall} : AddAction(call)

RawSpec == RawInit /\ [][RawNext]_vars

\* the engine has a gamepad manager and its connected is true
PadUsable == hasGamepad /\ connected(gamepad)
SomeButtonPressed(a) ==
    \E i \in 1..Len(a.buttons) :
        buttonPressed(gamepad, triggersAreAxes, a.buttons[i]) = Ok(TRUE)

\* C21: the rawPressed a tick computes for an action is true iff one of its key
\* names is true in keyStates or, with no key down and a gamepad manager that is
\* connected, one of its buttons is pressed; without a connected gamepad manager
\* the buttons count for nothing and an action with buttons alone is not pressed.
C21_RawPressedDefinition ==
    AfterTick =>
        \A n \in DOMAIN result.raw :
            LET a == actions[n] IN
            /\ result.raw[n] =
                   (SomeKeyDown(a) \/ (~SomeKeyDown(a) /\ PadUsable /\ SomeButtonPressed(a)))
            /\ ~PadUsable => result.raw[n] = SomeKeyDown(a)
            /\ (~PadUsable /\ a.keys = <<>>) => ~result.raw[n]

\* a tick found the action with a button alone pressed through a connected pad
C21_Witness ==
    /\ AfterTick
    /\ PadUsable
    /\ ButtonCall.name \in DOMAIN result.raw
    /\ result.raw[ButtonCall.name]

\* a tick found the action with a button alone not pressed, the engine having no
\* gamepad manager, while the button is held down on a connected pad
C21_WitnessAbsent ==
    /\ AfterTick
    /\ ~hasGamepad
    /\ ButtonCall.name \in DOMAIN result.raw
    /\ ~result.raw[ButtonCall.name]
    /\ 0 \in plugged /\ pads[0].pressed # {}

\* C22: a successful isActive returns the action's active flag and changes one
\* thing, that action's buffer, which becomes 0; the action's active and wasActive,
\* every other action, keyStates and the registry's names stay as they were.
C22_IsActiveClearsBufferOnly ==
    [][(result'.op = "isActive" /\ result'.err = "none") =>
          LET n == result'.name IN
          /\ n \in DOMAIN actions
          /\ result'.val = actions[n].active
          /\ actions' = [actions EXCEPT ![n].bufferDuration = 0]
          /\ actions'[n].active = actions[n].active
          /\ actions'[n].wasActive = actions[n].wasActive
          /\ \A m \in DOMAIN actions : m # n => actions'[m] = actions[m]
          /\ keyStates' = keyStates
          /\ order' = order]_vars

\* isActive has returned true for a press action that had fired and had buffer
\* time left
C22_Witness ==
    /\ result.op = "isActive"
    /\ result.err = "none"
    /\ IsPress(result.name)
    /\ result.val
    /\ result.buffered
    /\ actions[result.name].wasActive
    /\ actions[result.name].bufferDuration = 0

\* isActive has returned true for a hold action
C22_WitnessHold ==
    /\ result.op = "isActive"
    /\ result.err = "none"
    /\ IsHold(result.name)
    /\ result.val

(***************************************************************************)
(* ClockSpec: one press action and the mouse, frames 4, 7 and 16 ms apart  *)
(* (240, 144 and 60 Hz displays), with the observer that reads the clock.  *)
(* performance.now() is in milliseconds, so the dt of a 7 ms frame is the   *)
(* number 7, 7000 in the model's unit.                                      *)
(***************************************************************************)
FrameIntervals == {4 * 1000, 7 * 1000, 16 * 1000}

ClockInit ==
    /\ padIndex = -1
    /\ hasGamepad = FALSE
    /\ hostShort = FALSE
    /\ innerDeadzone = InnerDeadzone
    /\ outerDeadzone = OuterDeadzone
    /\ bufferDuration = DefaultBufferDuration
    /\ pollAlive = FALSE
    /\ obs = ObsClock
    /\ InitState

ClockNext ==
    \/ \E b \in MouseButtons : MouseDown(b)
    \/ \E b \in MouseButtons : MouseUp(b)
    \/ \E dt \in FrameIntervals : Tick(dt)
    \/ AddAction(PressCall)
    \/ IsActive(Watched)

ClockSpec == ClockInit /\ [][ClockNext]_vars

\* bufferDuration seconds on the clock, whose unit is the millisecond
BufferWindow == DefaultBufferDuration * 1000

\* C23: a press action that fired on a tick and has been held since with no
\* isActive call is active after every later tick whose clock time since the
\* firing tick is less than bufferDuration seconds.
C23_ActiveForBufferSeconds ==
    (AfterTick /\ obs.fired /\ obs.since < BufferWindow) => actions[Watched].active

(***************************************************************************)
(* The earlier variant of the engine, src/unnamed/part_001: the mouse      *)
(* listeners write one name per button, addAction lower-cases the keys and *)
(* expands nothing, and the press update tests bufferDuration >= 0.  The   *)
(* variant declares actions and keyStates without an initial value, so as  *)
(* written its listeners, addAction, isActive and first tick throw a       *)
(* TypeError; the model starts both as empty objects, the state the        *)
(* variant's methods are written for.                                      *)
(***************************************************************************)
earlyMouseNames(button) ==
    IF button = 0 THEN {"left click"}
    ELSE IF button = 1 THEN {"middle click"}
    ELSE IF button = 2 THEN {"right click"}
    ELSE {}

earlyPressUpdate(a, pressed, dt) ==
    IF pressed
    THEN IF a.bufferDuration >= 0
         THEN [a EXCEPT !.bufferDuration = @ - dt, !.active = TRUE]
         ELSE IF a.wasActive
              THEN [a EXCEPT !.active = FALSE]
              ELSE [a EXCEPT !.active = TRUE, !.wasActive = TRUE,
                             !.bufferDuration = bufferDuration]
    ELSE [a EXCEPT !.wasActive = FALSE, !.active = FALSE]

earlyUpdate(a, pressed, dt) ==
    IF a.type = "hold" THEN [a EXCEPT !.active = pressed]
    ELSE earlyPressUpdate(a, pressed, dt)

earlyNewAction(keys, buttons, type) ==
    [active |-> FALSE,
     keys |-> [i \in 1..Len(keys) |-> ToLowerCase(keys[i])],
     buttons |-> mapButtons(buttons),
     type |-> IF type = "hold" THEN "hold" ELSE "press",
     wasActive |-> FALSE,
     bufferDuration |-> 0]

EarlyMouseDown(button) ==
    /\ keyStates' = Assign(keyStates, earlyMouseNames(button), TRUE)
    /\ heldMouse' = heldMouse \cup {button}
    /\ result' = Event
    /\ UNCHANGED <<configVars, hostVars, managerVars, heldKeys, registryVars, obs>>

EarlyMouseUp(button) ==
    /\ keyStates' = Assign(keyStates, earlyMouseNames(button), FALSE)
    /\ heldMouse' = heldMouse \ {button}
    /\ result' = Event
    /\ UNCHANGED <<configVars, hostVars, managerVars, heldKeys, registryVars, obs>>

\* the variant's updateCallback of a manager built without a gamepad
EarlyTick(dt) ==
    LET raw == [n \in DOMAIN actions |->
                   \E i \in 1..Len(actions[n].keys) : KeyState(keyStates, actions[n].keys[i])]
        acts == [n \in DOMAIN actions |-> earlyUpdate(actions[n], raw[n], dt)]
        r == [acts |-> acts, raw |-> raw, threw |-> FALSE]
    IN  /\ tickAlive
        /\ actions' = acts
        /\ result' = [op |-> "tick", raw |-> raw, threw |-> FALSE]
        /\ obs' = ObsTick(obs, dt, r)
        /\ UNCHANGED <<configVars, hostVars, managerVars, keyVars, order, tickAlive>>

EarlyAddAction(call) ==
    LET keys == Arg(call, "keys", <<>>)
        buttons == Arg(call, "buttons", <<>>)
        type == Arg(call, "type", "hold")
    IN  IF Len(keys) = 0 /\ Len(buttons) = 0
        THEN /\ result' = [op |-> "addAction", call |-> call,
                           err |-> "InvalidArgumentError"]
             /\ UNCHANGED <<configVars, hostVars, managerVars, keyVars, registryVars,
                            obs>>
        ELSE /\ actions' = [n \in DOMAIN actions \cup {call.name} |->
                               IF n = call.name THEN earlyNewAction(keys, buttons, type)
                               ELSE actions[n]]
             /\ order' = IF call.name \in DOMAIN actions THEN order
                         ELSE Append(order, call.name)
             /\ result' = [op |-> "addAction", call |-> call, err |-> "none"]
             /\ obs' = ObsAddAction(obs, call.name)
             /\ UNCHANGED <<configVars, hostVars, managerVars, keyVars, tickAlive>>

EarlyIsActive(name) ==
    IF name \in DOMAIN actions
    THEN /\ actions' = [actions EXCEPT ![name].bufferDuration = 0]
         /\ result' = [op |-> "isActive", name |-> name, err |-> "none",
                       val |-> actions[name].active]
         /\ obs' = ObsIsActive(obs, name)
         /\ UNCHANGED <<configVars, hostVars, managerVars, keyVars, order, tickAlive>>
    ELSE /\ result' = [op |-> "isActive", name |-> name,
                       err |-> "InvalidArgumentError", val |-> FALSE]
         /\ UNCHANGED <<configVars, hostVars, managerVars, keyVars, registryVars, obs>>

EarlyPressCall ==
    [name |-> Watched, given |-> {"keys", "type"},
     keys |-> <<"Left Click">>, buttons |-> <<>>, type |-> "press"]

EarlyMouseButtons == {0, 2}

(***************************************************************************)
(* EarlySpec: the earlier variant with one press action, under an          *)
(* application that asks isActive once after every tick or never asks.     *)
(* Both the tick and the application's frame re-arm themselves with        *)
(* requestAnimationFrame, so each runs again whenever it is due.           *)
(***************************************************************************)
EarlyInit ==
    /\ padIndex = -1
    /\ hasGamepad = FALSE
    /\ hostShort = FALSE
    /\ innerDeadzone = InnerDeadzone
    /\ outerDeadzone = OuterDeadzone
    /\ bufferDuration = DefaultBufferDuration
    /\ pollAlive = FALSE
    /\ obs \in {ObsDraw("every"), ObsDraw("never")}
    /\ InitState

\* a frame of the tick, which waits for the application's query when it asks
EarlyFrame == (obs.asked \/ obs.query = "never") /\ \E dt \in DtSet : EarlyTick(dt)

\* the application's query of the tick just run
EarlyQuery == obs.query = "every" /\ ~obs.asked /\ EarlyIsActive(Watched)

EarlyNext ==
    \/ \E b \in EarlyMouseButtons : EarlyMouseDown(b)
    \/ \E b \in EarlyMouseButtons : EarlyMouseUp(b)
    \/ EarlyFrame
    \/ EarlyAddAction(EarlyPressCall)
    \/ EarlyQuery

EarlySpec ==
    EarlyInit /\ [][EarlyNext]_vars /\ WF_vars(EarlyFrame) /\ WF_vars(EarlyQuery)

WatchedActive == Watched \in DOMAIN actions /\ actions[Watched].active

BufferChoices == {DefaultBufferDuration, DefaultBufferDuration * 1000}

DrawInit ==
    /\ padIndex = -1
    /\ hasGamepad = TRUE
    /\ hostShort = FALSE
    /\ innerDeadzone = InnerDeadzone
    /\ outerDeadzone = OuterDeadzone
    /\ bufferDuration \in BufferChoices
    /\ pollAlive = TRUE
    /\ obs = ObsDraw("every")
    /\ InitState

\* a tick, which comes once the application has asked about the one before
DrawFrame == obs.asked /\ \E dt \in DtSet : Tick(dt)

\* the application's query of the tick just run
DrawQuery == ~obs.asked /\ IsActive(Watched)

DrawNext ==
    \/ HostPlug(0)
    \/ HostUnplug(0)
    \/ \E b \in DeviceButtons : HostPress(0, b)
    \/ \E b \in DeviceButtons : HostRelease(0, b)
    \/ PollInput
    \/ \E b \in MouseButtons : MouseDown(b)
    \/ \E b \in MouseButtons : MouseUp(b)
    \/ DrawFrame
    \/ AddAction(PressCall)
    \/ DrawQuery

DrawSpec == DrawInit /\ [][DrawNext]_vars

\* C25: when isActive is called once after every tick, the query of a press action
\* returns true exactly when the tick before it was the first to see the action's
\* triggers down after a tick that saw them up or after registration.
C25_OneTruePerObservedPress ==
    [][DrawQuery => (result'.err = "none" /\ result'.val = obs.rising)]_vars

\* a query has returned true for a press observed after an earlier one was released,
\* under the longer bufferDuration
C25_Witness ==
    /\ result.op = "isActive"
    /\ result.err = "none"
    /\ result.val
    /\ obs.rising
    /\ bufferDuration # DefaultBufferDuration
    /\ actions[Watched].wasActive

\* a query has returned false while the trigger was still held
C25_WitnessHeld ==
    /\ result.op = "isActive"
    /\ result.err = "none"
    /\ ~result.val
    /\ obs.seen
    /\ ~obs.rising

\* C26: after every tick, an action of either mode whose triggers the tick saw up
\* is not active, and a press action's wasActive is false, whatever buffer time
\* the action has left.
C26_InactiveWhenNotPressed ==
    AfterTick =>
        \A n \in DOMAIN result.raw :
            ~result.raw[n] =>
                /\ ~actions[n].active
                /\ IsPress(n) => ~actions[n].wasActive

\* a tick has seen the triggers of a press action up while the action had buffer
\* time left
C26_Witness ==
    /\ AfterTick
    /\ \E n \in DOMAIN result.raw :
          /\ IsPress(n)
          /\ ~result.raw[n]
          /\ actions[n].bufferDuration > 0

\* C27: in every state of a GamepadManager, when connected is true the
\* trigger-mode flag has been determined (triggersAreAxes is not undefined).
C27_FlagSetWhenConnected == connected(gamepad) => triggersAreAxes # "undefined"

(***************************************************************************)
(* AliasSpec: an InputManager without a gamepad under key and mouse events *)
(* alone: a table key, a letter key, a digit key, a key with no friendly   *)
(* name, and the mouse buttons 0 to 3 (3 is the browser's back button).    *)
(***************************************************************************)
AliasCodes == {"ShiftLeft", "KeyA", "Digit1", "Enter"}
AliasMouseButtons == {0, 1, 2, 3}

AliasInit ==
    /\ padIndex = -1
    /\ hasGamepad = FALSE
    /\ hostShort = FALSE
    /\ innerDeadzone = InnerDeadzone
    /\ outerDeadzone = OuterDeadzone
    /\ bufferDuration = DefaultBufferDuration
    /\ pollAlive = FALSE
    /\ obs = ObsOff
    /\ InitState

AliasNext ==
    \/ \E c \in AliasCodes : KeyDown(c)
    \/ \E c \in AliasCodes : KeyUp(c)
    \/ \E b \in AliasMouseButtons : MouseDown(b)
    \/ \E b \in AliasMouseButtons : MouseUp(b)

AliasSpec == AliasInit /\ [][AliasNext]_vars

\* the pairs of names the listeners write for one key or one mouse button
KeyAliases ==
    { [code |-> "ShiftLeft", friendly |-> "left shift", raw |-> "shiftleft"],
      [code |-> "KeyA", friendly |-> "a", raw |-> "keya"],
      [code |-> "Digit1", friendly |-> "1", raw |-> "digit1"] }
MouseAliases ==
    { [button |-> 0, click |-> "left click", mouse |-> "left mouse"],
      [button |-> 1, click |-> "middle click", mouse |-> "middle mouse"],
      [button |-> 2, click |-> "right click", mouse |-> "right mouse"] }

\* no name is written by two keys, by two mouse buttons, or by a key and a mouse
\* button
NoSharedName ==
    /\ \A c1, c2 \in StandardCodes :
          c1 # c2 => KeyEventNames(c1) \cap KeyEventNames(c2) = {}
    /\ \A b1, b2 \in AliasMouseButtons :
          b1 # b2 => MouseEventNames(b1) \cap MouseEventNames(b2) = {}
    /\ \A c \in StandardCodes, b \in AliasMouseButtons :
          KeyEventNames(c) \cap MouseEventNames(b) = {}

\* C28: after any sequence of key and mouse events the two names of a key are
\* both true or both false in keyStates (true exactly while the key's last event
\* was keydown), and so are the two names of each of the mouse buttons 0, 1, 2; a
\* mouse button with another index leaves every entry as it was; and no two keys
\* or buttons write the same name.
C28_AliasesAgree ==
    /\ \A p \in KeyAliases :
          /\ (p.friendly \in keyStates) = (p.raw \in keyStates)
          /\ (p.raw \in keyStates) = (p.code \in heldKeys)
    /\ \A p \in MouseAliases :
          /\ (p.click \in keyStates) = (p.mouse \in keyStates)
          /\ (p.mouse \in keyStates) = (p.button \in heldMouse)
    /\ \A c \in StandardCodes :
          KeyEventNames(c) \subseteq keyStates \/ KeyEventNames(c) \cap keyStates = {}
    /\ \A b \in AliasMouseButtons \ {0, 1, 2} :
          b \in heldMouse => \A p \in MouseAliases :
              (p.mouse \in keyStates) = (p.button \in heldMouse)
    /\ NoSharedName

\* a key is down with both its names true, another has gone up again, and a mouse
\* button with index 3 is down beside the left button
C28_Witness ==
    /\ heldKeys = {"KeyA", "ShiftLeft"}
    /\ {"a", "keya", "left shift", "shiftleft"} \subseteq keyStates
    /\ "1" \notin keyStates
    /\ heldMouse = {0, 3}
    /\ "left mouse" \in keyStates

\* the connected pad of lowest slot index
LowestPlugged == CHOOSE i \in plugged : \A j \in plugged : i <= j

\* C29: in any-pad mode every poll leaves the manager with the snapshot of the
\* connected pad of lowest index, or with none when no pad is connected.
C29_AnyPadReadsLowestIndex ==
    [][(PollInput /\ padIndex = -1) =>
          gamepad' = IF plugged = {} THEN Null
                     ELSE Snapshot(pads[LowestPlugged])]_vars

\* a manager that first acquired the pad of slot 1 (which has no trigger axes) now
\* holds the snapshot of the pad of slot 0, connected later, while both are
\* connected
C29_Witness ==
    /\ padIndex = -1
    /\ plugged = Slots
    /\ gamepad = Snapshot(pads[0])
    /\ gamepad # Snapshot(pads[1])
    /\ triggersAreAxes = "false"

\* a statement TLC refutes: a poll that finds a pad after a poll that found one
\* has found the same pad
C29_NeverSwitchesDirectly ==
    [][(PollInput /\ padIndex = -1 /\ gamepad.tag = "pad" /\ gamepad'.tag = "pad") =>
          HasAxis(gamepad', AXIS_LEFT_TRIGGER) = HasAxis(gamepad, AXIS_LEFT_TRIGGER)]_vars

====
